---- MODULE Spec2Model ----
(***************************************************************************)
(* hts-core: hierarchy specification, hierarchy tree, summation matrix,   *)
(* periods and the HierarchicalTimeSeries facade.                          *)
(*                                                                         *)
(* Strings are sequences of byte codes, so that joining, trimming and the  *)
(* byte-wise ordering used by the sorts are computed, not assumed.         *)
(* A table (DataFrame) is a set of column names and a sequence of rows,    *)
(* each row a function from the column names to strings.  All columns of   *)
(* the tables considered here are string columns without nulls.            *)
(* Matrix entries and bottom values are integers (the f64 values of the    *)
(* program restricted to exactly representable integers).                  *)
(***************************************************************************)
EXTENDS Integers, Sequences, FiniteSets, TLC

VARIABLES df, spec, pc, vres, tree, sm, bvals, y, levels, text, period,
          periods, frame, ord, query, found, again

\* the variables of the facade, of the comparison, of get_node and of the round trip
aux == <<periods, frame, ord, query, found, again>>

vars == <<df, spec, pc, vres, tree, sm, bvals, y, levels, text, period, aux>>

(***************************************************************************)
(* Bounds of the model.                                                    *)
(***************************************************************************)
\* largest number of rows of an input table
MaxRows == 3
\* bottom values are drawn from 0..MaxVal
MaxVal == 2

(***************************************************************************)
(* Program constants.                                                      *)
(***************************************************************************)
\* the character '"' removed by trim_matches
Quote == 34
\* the separator '/' of join
Slash == 47
\* the literal "Total"
Total == <<84, 111, 116, 97, 108>>

(***************************************************************************)
(* Input universe: column names and the values a column may hold.          *)
(***************************************************************************)
ColS == <<83>>
ColC == <<67>>
ColX == <<88>>
ColumnNames == {ColS, ColC, ColX}

\* "a", "\"a" (a value that starts with a quote character), "a/a"
ValuesS == {<<97>>, <<34, 97>>, <<97, 47, 97>>}
\* "a", "Total"
ValuesC == {<<97>>, Total}

ValuesOf(c) == IF c = ColS THEN ValuesS ELSE ValuesC

\* the column sets of the input tables
TableColumnSets == {{ColS}, {ColS, ColC}}

Range(s) == {s[i] : i \in 1..Len(s)}

SeqsUpTo(S, n) == UNION {[1..k -> S] : k \in 0..n}

NoDuplicates(s) == \A i, j \in 1..Len(s) : i # j => s[i] # s[j]

RowsOver(cols) == {r \in [cols -> ValuesS \cup ValuesC] : \A c \in cols : r[c] \in ValuesOf(c)}

Tables == UNION {{[cols |-> cs, rows |-> rs] : rs \in SeqsUpTo(RowsOver(cs), MaxRows)} : cs \in TableColumnSets}

\* specifications with pairwise distinct columns, at least one of them
Specs == {s \in [hierarchy : SeqsUpTo(ColumnNames, 2), groups : SeqsUpTo(ColumnNames, 1)] :
            /\ NoDuplicates(s.hierarchy \o s.groups)
            /\ s.hierarchy \o s.groups # <<>>}

(***************************************************************************)
(* Strings.                                                                *)
(***************************************************************************)
\* byte-wise lexicographic order of str
StrLess(a, b) ==
    \E i \in 1..(Len(a) + 1) :
        /\ i <= Len(b)
        /\ \A k \in 1..(i - 1) : a[k] = b[k]
        /\ (i = Len(a) + 1 \/ a[i] < b[i])

\* [String]::join
RECURSIVE join(_, _)
join(parts, sep) ==
    IF parts = <<>> THEN <<>>
    ELSE IF Len(parts) = 1 THEN parts[1]
    ELSE parts[1] \o <<sep>> \o join(Tail(parts), sep)

\* str::trim_matches(ch): every leading and every trailing ch is removed
RECURSIVE trim_matches(_, _)
trim_matches(s, ch) ==
    IF s = <<>> THEN s
    ELSE IF s[1] = ch THEN trim_matches(Tail(s), ch)
    ELSE IF s[Len(s)] = ch THEN trim_matches(SubSeq(s, 1, Len(s) - 1), ch)
    ELSE s

\* AnyValue::to_string of a string value: the value between double quotes
to_string(v) == <<Quote>> \o v \o <<Quote>>

\* series.get(i)?.to_string() followed by trim_matches('"')
CellLabel(v) == trim_matches(to_string(v), Quote)

EmptyMap == [x \in {} |-> <<>>]

(***************************************************************************)
(* Frames: select, unique, sort.                                           *)
(***************************************************************************)
\* lexicographic order of two rows on the columns cols, in that order
RowLess(r, q, cols) ==
    \E i \in 1..Len(cols) :
        /\ \A k \in 1..(i - 1) : r[cols[k]] = q[cols[k]]
        /\ StrLess(r[cols[i]], q[cols[i]])

\* .select(cols): the rows restricted to the columns cols
Select(rows, cols) == [i \in 1..Len(rows) |-> [c \in Range(cols) |-> rows[i][c]]]

\* unique dropping a row only when it repeats the row just before it
RECURSIVE Unique_adjacent(_)
Unique_adjacent(rows) ==
    IF rows = <<>> THEN <<>>
    ELSE LET front == Unique_adjacent(SubSeq(rows, 1, Len(rows) - 1))
             last == rows[Len(rows)]
         IN IF Len(rows) > 1 /\ rows[Len(rows) - 1] = last THEN front ELSE Append(front, last)

\* .unique(None, UniqueKeepStrategy::First)
RECURSIVE Unique(_)
Unique(rows) ==
    IF rows = <<>> THEN <<>>
    ELSE LET front == Unique(SubSeq(rows, 1, Len(rows) - 1))
             last == rows[Len(rows)]
         IN IF \E i \in 1..Len(front) : front[i] = last THEN front ELSE Append(front, last)

\* the frames .unique() may return: it keeps one row of each kind and does
\* not maintain the order of the rows it keeps
UniqueOrders(rows) ==
    LET kept == Unique(rows)
    IN {u \in [1..Len(kept) -> Range(kept)] : Range(u) = Range(kept)}

\* the sort left out: the frame stays in the order unique returned
Sort_skipped(rows, cols) == rows

\* .sort(cols, SortMultipleOptions::default()): ascending on cols; the frames
\* sorted here hold no two rows equal on cols, so ties never arise
Sort(rows, cols) ==
    LET n == Len(rows)
        rank(i) == Cardinality({j \in 1..n : \/ RowLess(rows[j], rows[i], cols)
                                             \/ (~RowLess(rows[i], rows[j], cols) /\ j < i)})
    IN [p \in 1..n |-> rows[CHOOSE i \in 1..n : rank(i) = p - 1]]

(***************************************************************************)
(* HierarchySpec.                                                          *)
(***************************************************************************)
all_columns(s) == s.hierarchy \o s.groups

Ok == [kind |-> "Ok", col |-> <<>>]
ColumnNotFound(c) == [kind |-> "ColumnNotFound", col |-> c]
NoResult == [kind |-> "None", col |-> <<>>]

\* the loop of validate from position i of all_columns on
RECURSIVE ValidateFrom(_, _, _)
ValidateFrom(cols, df_cols, i) ==
    IF i > Len(cols) THEN Ok
    ELSE IF cols[i] \notin df_cols THEN ColumnNotFound(cols[i])
    ELSE ValidateFrom(cols, df_cols, i + 1)

\* validate walking the group columns before the hierarchy columns
validate_groups_first(s, d) == ValidateFrom(s.groups \o s.hierarchy, d.cols, 1)

\* HierarchySpec::validate
validate(s, d) == ValidateFrom(all_columns(s), d.cols, 1)

\* the loop iteration with the push of the groups alone left out
LoopStep_groups_skipped(s, h) ==
    LET n_hier == Len(s.hierarchy)
        has_groups == s.groups # <<>>
        hier_cols == SubSeq(s.hierarchy, 1, h)
        crossed == hier_cols \o s.groups
    IN (IF h > 0 THEN <<hier_cols>> ELSE <<>>)
       \o (IF has_groups /\ h < n_hier
           THEN (IF crossed # <<>> /\ h > 0 THEN <<crossed>> ELSE <<>>)
           ELSE <<>>)

\* the levels pushed by iteration h of the loop of level_combinations
LoopStep(s, h) ==
    LET n_hier == Len(s.hierarchy)
        has_groups == s.groups # <<>>
        hier_cols == SubSeq(s.hierarchy, 1, h)
        crossed == hier_cols \o s.groups
    IN (IF h > 0 THEN <<hier_cols>> ELSE <<>>)
       \o (IF has_groups /\ h < n_hier
           THEN (IF h = 0 THEN <<s.groups>> ELSE <<>>)
                \o (IF crossed # <<>> /\ h > 0 THEN <<crossed>> ELSE <<>>)
           ELSE <<>>)

\* all_level_keys after the iterations 0..h of the loop (h = -1: before the loop)
RECURSIVE Emitted(_, _)
Emitted(s, h) == IF h < 0 THEN << <<>> >> ELSE Emitted(s, h - 1) \o LoopStep(s, h)

\* the bottom level is pushed unless the list already contains it
WithBottom(keys, all_cols) ==
    IF \E i \in 1..Len(keys) : keys[i] = all_cols THEN keys ELSE Append(keys, all_cols)

\* retain: a level stays when no earlier level has the same "/"-joined key
RECURSIVE Retain(_)
Retain(keys) ==
    IF keys = <<>> THEN <<>>
    ELSE LET front == SubSeq(keys, 1, Len(keys) - 1)
             last == keys[Len(keys)]
         IN IF \E i \in 1..Len(front) : join(front[i], Slash) = join(last, Slash)
            THEN Retain(front)
            ELSE Append(Retain(front), last)

\* sort_by_key(|k| k.len()): stable, ascending by the number of columns
SortByLen(keys) ==
    LET n == Len(keys)
        rank(i) == Cardinality({j \in 1..n : \/ Len(keys[j]) < Len(keys[i])
                                             \/ (Len(keys[j]) = Len(keys[i]) /\ j < i)})
    IN [p \in 1..n |-> keys[CHOOSE i \in 1..n : rank(i) = p - 1]]

\* HierarchySpec::level_combinations
level_combinations(s) ==
    SortByLen(Retain(WithBottom(Emitted(s, Len(s.hierarchy)), all_columns(s))))

(***************************************************************************)
(* Node and HierarchyTree.  Levels and bottom indices count from 0, as in  *)
(* the program; positions of TLA+ sequences count from 1.                  *)
(***************************************************************************)
\* Node::is_bottom
is_bottom(node) == Len(node.aggregates_from) = 1

\* the bottom_idx in 0..n_bottom-1, ascending, whose trimmed values equal
\* the labels on every column of the level
MatchingBottom(bottom_df, level_cols, labels) ==
    LET matches(idx) == \A k \in 1..Len(level_cols) :
                            labels[level_cols[k]] = CellLabel(bottom_df[idx + 1][level_cols[k]])
    IN SelectSeq([i \in 1..Len(bottom_df) |-> i - 1], matches)

\* the Total node with the last bottom index left out
TotalNode_short(level, n_bottom_rows) ==
    [id |-> Total, level |-> level,
     aggregates_from |-> [i \in 1..(n_bottom_rows - 1) |-> i - 1],
     labels |-> EmptyMap]

\* the Total node of the empty level
TotalNode(level, n_bottom_rows) ==
    [id |-> Total, level |-> level,
     aggregates_from |-> [i \in 1..n_bottom_rows |-> i - 1],
     labels |-> EmptyMap]

\* the node of a row with the id parts joined in reverse column order
RowNode_reversed(bottom_df, unique_df, level_cols, level, row_idx) ==
    LET labels == [c \in Range(level_cols) |-> CellLabel(unique_df[row_idx][c])]
        id_parts == [k \in 1..Len(level_cols) |-> labels[level_cols[Len(level_cols) + 1 - k]]]
    IN [id |-> join(id_parts, Slash), level |-> level,
        aggregates_from |-> MatchingBottom(bottom_df, level_cols, labels),
        labels |-> labels]

\* the node built from row row_idx of unique_df
RowNode(bottom_df, unique_df, level_cols, level, row_idx) ==
    LET labels == [c \in Range(level_cols) |-> CellLabel(unique_df[row_idx][c])]
        id_parts == [k \in 1..Len(level_cols) |-> labels[level_cols[k]]]
    IN [id |-> join(id_parts, Slash), level |-> level,
        aggregates_from |-> MatchingBottom(bottom_df, level_cols, labels),
        labels |-> labels]

\* the nodes of one level, in the order they are pushed
LevelNodes(bottom_df, level_cols, level) ==
    IF level_cols = <<>> THEN << TotalNode(level, Len(bottom_df)) >>
    ELSE LET unique_df == Sort(Unique(Select(bottom_df, level_cols)), level_cols)
         IN [r \in 1..Len(unique_df) |-> RowNode(bottom_df, unique_df, level_cols, level, r)]

\* the nodes of the first k levels
RECURSIVE NodesUpTo(_, _, _)
NodesUpTo(bottom_df, all_level_keys, k) ==
    IF k = 0 THEN <<>>
    ELSE NodesUpTo(bottom_df, all_level_keys, k - 1)
         \o LevelNodes(bottom_df, all_level_keys[k], k - 1)

\* id_to_index.insert(id, nodes.len()) for the first k nodes: a later
\* insertion of the same id replaces the earlier one
RECURSIVE IndexUpTo(_, _)
IndexUpTo(nodes, k) ==
    IF k = 0 THEN EmptyMap
    ELSE (nodes[k].id :> (k - 1)) @@ IndexUpTo(nodes, k - 1)

\* the projection sorted but not deduplicated
BottomDf_dups(d, s) == Sort(Select(d.rows, all_columns(s)), all_columns(s))

\* the sorted, deduplicated projection of the table on all spec columns
BottomDf(d, s) == Sort(Unique(Select(d.rows, all_columns(s))), all_columns(s))

\* the tree returned by from_dataframe once validate has passed
BuildTree(d, s) ==
    LET bottom_df == BottomDf(d, s)
        all_level_keys == level_combinations(s)
        nodes == NodesUpTo(bottom_df, all_level_keys, Len(all_level_keys))
    IN [nodes |-> nodes,
        n_bottom |-> Len(bottom_df),
        n_levels |-> Len(all_level_keys),
        id_to_index |-> IndexUpTo(nodes, Len(nodes))]

NoTree == [nodes |-> <<>>, n_bottom |-> 0, n_levels |-> 0, id_to_index |-> EmptyMap]

\* HierarchyTree accessors
n_series(t) == Len(t.nodes)
n_bottom(t) == t.n_bottom
bottom_level_nodes(t) == SelectSeq(t.nodes, is_bottom)

(***************************************************************************)
(* SummationMatrix.                                                        *)
(***************************************************************************)
\* the loop over aggregates_from leaving after its first entry
SetOnes_first(row, aggregates_from, k) ==
    IF k = 0 THEN row ELSE [row EXCEPT ![aggregates_from[1] + 1] = 1]

\* matrix[(row_idx, bottom_idx)] = 1.0 for the first k entries of aggregates_from
RECURSIVE SetOnes(_, _, _)
SetOnes(row, aggregates_from, k) ==
    IF k = 0 THEN row
    ELSE [SetOnes(row, aggregates_from, k - 1) EXCEPT ![aggregates_from[k] + 1] = 1]

\* one row of Mat::zeros(n, m) with the entries of the node set
MatrixRow(node, m) == SetOnes([j \in 1..m |-> 0], node.aggregates_from, Len(node.aggregates_from))

\* SummationMatrix::from_hierarchy
from_hierarchy(t) ==
    LET n == n_series(t)
        m == n_bottom(t)
        bottoms == bottom_level_nodes(t)
    IN [nrows |-> n,
        ncols |-> m,
        matrix |-> [i \in 1..n |-> MatrixRow(t.nodes[i], m)],
        row_labels |-> [i \in 1..n |-> t.nodes[i].id],
        col_labels |-> [j \in 1..Len(bottoms) |-> bottoms[j].id]]

NoMatrix == [nrows |-> 0, ncols |-> 0, matrix |-> <<>>, row_labels |-> <<>>, col_labels |-> <<>>]

\* SummationMatrix accessors
shape(s) == <<s.nrows, s.ncols>>
row_labels(s) == s.row_labels
col_labels(s) == s.col_labels

\* the product of one matrix row with b, over the first k columns
RECURSIVE Dot(_, _, _)
Dot(row, b, k) == IF k = 0 THEN 0 ELSE Dot(row, b, k - 1) + row[k] * b[k]

\* aggregate with the product stopping one column early
aggregate_short(s, bottom_values) ==
    [i \in 1..s.nrows |-> Dot(s.matrix[i], bottom_values, IF s.ncols = 0 THEN 0 ELSE s.ncols - 1)]

\* SummationMatrix::aggregate for a vector of the right length: y = S * b
aggregate(s, bottom_values) == [i \in 1..s.nrows |-> Dot(s.matrix[i], bottom_values, s.ncols)]

\* HierarchicalTimeSeries accessors over the tree it owns
hts_n_series == n_series(tree)
hts_n_bottom == n_bottom(tree)

(***************************************************************************)
(* Operations.                                                             *)
(***************************************************************************)
\* the bottom vectors handed to aggregate: every vector of the right length
\* and a zero vector of every other length up to MaxRows + 1
BottomVectors(m) ==
    [1..m -> 0..MaxVal] \cup {[i \in 1..k |-> 0] : k \in (0..(MaxRows + 1)) \ {m}}

\* no period has been parsed yet
NoPeriod == [kind |-> "none", a |-> 0, b |-> 0, c |-> 0]

\* no call has been made yet
Idle ==
    /\ vres = NoResult
    /\ tree = NoTree
    /\ sm = NoMatrix
    /\ bvals = <<>>
    /\ y = <<>>
    /\ levels = <<>>
    /\ period = NoPeriod
    /\ periods = <<>>
    /\ frame = <<>>
    /\ ord = "none"
    /\ query = <<>>
    /\ found = <<>>
    /\ again = NoPeriod

Init ==
    /\ df \in Tables
    /\ spec \in Specs
    /\ pc = "init"
    /\ text = <<>>
    /\ Idle

\* spec.validate(&df) called on its own
Validate ==
    /\ pc = "init"
    /\ vres' = validate(spec, df)
    /\ pc' = "validated"
    /\ UNCHANGED <<df, spec, tree, sm, bvals, y, levels, text, period, aux>>

\* HierarchyTree::from_dataframe(&df, &spec)
FromDataframe ==
    /\ pc = "init"
    /\ LET v == validate(spec, df)
       IN IF v # Ok
          THEN /\ vres' = v
               /\ pc' = "error"
               /\ tree' = tree
          ELSE /\ vres' = v
               /\ pc' = "tree"
               /\ tree' = BuildTree(df, spec)
    /\ UNCHANGED <<df, spec, sm, bvals, y, levels, text, period, aux>>

\* SummationMatrix::from_hierarchy(&tree)
FromHierarchy ==
    /\ pc = "tree"
    /\ sm' = from_hierarchy(tree)
    /\ pc' = "matrix"
    /\ UNCHANGED <<df, spec, vres, tree, bvals, y, levels, text, period, aux>>

\* aggregate asserting only that the vector is not too short
Aggregate_lenient ==
    /\ pc = "matrix"
    /\ \E b \in BottomVectors(sm.ncols) :
          /\ bvals' = b
          /\ IF Len(b) < sm.ncols
             THEN /\ pc' = "panic"
                  /\ y' = <<>>
             ELSE /\ pc' = "aggregated"
                  /\ y' = aggregate(sm, b)
    /\ UNCHANGED <<df, spec, vres, tree, sm, levels, text, period, aux>>

\* s.aggregate(&bottom_values): the assertion on the length, then y = S * b
Aggregate ==
    /\ pc = "matrix"
    /\ \E b \in BottomVectors(sm.ncols) :
          /\ bvals' = b
          /\ IF Len(b) # sm.ncols
             THEN /\ pc' = "panic"
                  /\ y' = <<>>
             ELSE /\ pc' = "aggregated"
                  /\ y' = aggregate(sm, b)
    /\ UNCHANGED <<df, spec, vres, tree, sm, levels, text, period, aux>>

\* the strings looked up: "Total", "a", "a/a", "a/Total" and "x"
QueryIds == {Total, <<97>>, <<97, 47, 97>>, <<97, 47>> \o Total, <<120>>}

\* HierarchyTree::get_node: Some(node) as <<node>>, None as <<>>
get_node(t, id) ==
    IF id \in DOMAIN t.id_to_index THEN <<t.nodes[t.id_to_index[id] + 1]>> ELSE <<>>

\* tree.get_node(id)
GetNode ==
    /\ pc = "tree"
    /\ \E id \in QueryIds :
          /\ query' = id
          /\ found' = get_node(tree, id)
    /\ pc' = "looked"
    /\ UNCHANGED <<df, spec, vres, tree, sm, bvals, y, levels, text, period,
                   periods, frame, ord, again>>

Next == Validate \/ FromDataframe \/ GetNode \/ FromHierarchy \/ Aggregate

Spec == Init /\ [][Next]_vars

(***************************************************************************)
(* The scenario of the crate documentation: hierarchy State, City, groups  *)
(* Sector, a table of 2 states, 2 cities in each state and 2 sectors.      *)
(***************************************************************************)
\* the column "G" standing for Sector (ColS stands for State, ColC for City)
ColG == <<71>>

ScenarioSpec == [hierarchy |-> <<ColS, ColC>>, groups |-> <<ColG>>]

\* the two states, in the order their rows appear in the table
ScenarioStates == {st \in [1..2 -> ValuesS] : st[1] # st[2]}

\* the two cities of the first and of the second state
ScenarioCities ==
    {<< <<(<<97>>), (<<98>>)>>, <<(<<97>>), (<<98>>)>> >>,
     << <<Total, (<<97>>)>>, <<(<<98>>), (<<97>>)>> >>}

\* the two sectors
ScenarioSectors == <<(<<98>>), (<<97>>)>>

\* row i of the 8 rows: state, city of the state, sector
ScenarioRow(st, ct, i) ==
    LET si == ((i - 1) \div 4) + 1
        ci == (((i - 1) \div 2) % 2) + 1
        gi == ((i - 1) % 2) + 1
    IN (ColS :> st[si]) @@ (ColC :> ct[si][ci]) @@ (ColG :> ScenarioSectors[gi])

ScenarioTables ==
    {[cols |-> {ColS, ColC, ColG}, rows |-> [i \in 1..8 |-> ScenarioRow(st, ct, i)]] :
        st \in ScenarioStates, ct \in ScenarioCities}

InitScenario ==
    /\ df \in ScenarioTables
    /\ spec = ScenarioSpec
    /\ pc = "init"
    /\ text = <<>>
    /\ Idle

SpecScenario == InitScenario /\ [][Next]_vars

(***************************************************************************)
(* The level enumerator on its own: level_combinations applied to specs    *)
(* whose column names may repeat, be empty or contain the separator.       *)
(***************************************************************************)
\* longest hierarchy and longest group list of the enumerated specs
MaxHierarchy == 2
MaxGroups == 2

\* column names: "", "a", "b" and "a/b"
LevelNames == {<<>>, <<97>>, <<98>>, <<97, 47, 98>>}

LevelSpecs ==
    {[hierarchy |-> h, groups |-> g] :
        h \in SeqsUpTo(LevelNames, MaxHierarchy), g \in SeqsUpTo(LevelNames, MaxGroups)}

\* a table without columns and rows: level_combinations reads no table
NoTable == [cols |-> {}, rows |-> <<>>]

InitLevels ==
    /\ df = NoTable
    /\ spec \in LevelSpecs
    /\ pc = "spec"
    /\ text = <<>>
    /\ Idle

\* spec.level_combinations()
LevelCombinations ==
    /\ pc = "spec"
    /\ levels' = level_combinations(spec)
    /\ pc' = "levels"
    /\ UNCHANGED <<df, spec, vres, tree, sm, bvals, y, text, period, aux>>

NextLevels == LevelCombinations

SpecLevels == InitLevels /\ [][NextLevels]_vars

(***************************************************************************)
(* Period: parsing of period strings.  A string is its UTF-8 bytes.  The   *)
(* numeric tokens considered hold at most 9 digits, so the overflow checks *)
(* of the i32 and u32 parsers never apply.                                 *)
(***************************************************************************)
\* the values of the enum Period, the error and the panic of parse
Annual(yr) == [kind |-> "Annual", a |-> yr, b |-> 0, c |-> 0]
Quarterly(yr, q) == [kind |-> "Quarterly", a |-> yr, b |-> q, c |-> 0]
Monthly(yr, m) == [kind |-> "Monthly", a |-> yr, b |-> m, c |-> 0]
Weekly(yr, w) == [kind |-> "Weekly", a |-> yr, b |-> w, c |-> 0]
Daily(yr, m, d) == [kind |-> "Daily", a |-> yr, b |-> m, c |-> d]
InvalidPeriod == [kind |-> "InvalidPeriod", a |-> 0, b |-> 0, c |-> 0]
Panicked == [kind |-> "panic", a |-> 0, b |-> 0, c |-> 0]

\* bytes: ' ', '+', '-', '0'
Blank == 32
Plus == 43
Minus == 45
Zero == 48

\* char::is_whitespace on the ASCII range
IsWhitespace(ch) == ch \in {9, 10, 11, 12, 13, 32}

IsDigit(ch) == ch \in Zero..(Zero + 9)

\* str::trim
RECURSIVE trim_start(_)
trim_start(str) ==
    IF str # <<>> /\ IsWhitespace(str[1]) THEN trim_start(Tail(str)) ELSE str

RECURSIVE trim_end(_)
trim_end(str) ==
    IF str # <<>> /\ IsWhitespace(str[Len(str)])
    THEN trim_end(SubSeq(str, 1, Len(str) - 1)) ELSE str

trim(str) == trim_end(trim_start(str))

\* the length of the leading run of non-whitespace bytes
RECURSIVE TokenLen(_)
TokenLen(str) ==
    IF str = <<>> \/ IsWhitespace(str[1]) THEN 0 ELSE 1 + TokenLen(Tail(str))

\* str::split_whitespace().collect()
RECURSIVE split_whitespace(_)
split_whitespace(str) ==
    IF str = <<>> THEN <<>>
    ELSE IF IsWhitespace(str[1]) THEN split_whitespace(Tail(str))
    ELSE LET n == TokenLen(str)
         IN <<SubSeq(str, 1, n)>> \o split_whitespace(SubSeq(str, n + 1, Len(str)))

\* the value of a string of decimal digits
RECURSIVE DigitsValue(_)
DigitsValue(ds) ==
    IF ds = <<>> THEN 0
    ELSE 10 * DigitsValue(SubSeq(ds, 1, Len(ds) - 1)) + (ds[Len(ds)] - Zero)

AllDigits(ds) == ds # <<>> /\ \A k \in 1..Len(ds) : IsDigit(ds[k])

NotANumber == [ok |-> FALSE, value |-> 0]
Number(v) == [ok |-> TRUE, value |-> v]

\* str::parse::<i32>(): an optional sign and at least one digit
parse_i32(tok) ==
    IF tok # <<>> /\ tok[1] \in {Plus, Minus}
    THEN IF AllDigits(Tail(tok))
         THEN Number((IF tok[1] = Minus THEN -1 ELSE 1) * DigitsValue(Tail(tok)))
         ELSE NotANumber
    ELSE IF AllDigits(tok) THEN Number(DigitsValue(tok)) ELSE NotANumber

\* str::parse::<u32>(): an optional '+' and at least one digit
parse_u32(tok) ==
    IF tok # <<>> /\ tok[1] = Plus
    THEN IF AllDigits(Tail(tok)) THEN Number(DigitsValue(Tail(tok))) ELSE NotANumber
    ELSE IF AllDigits(tok) THEN Number(DigitsValue(tok)) ELSE NotANumber

\* the number of days of a month of the proleptic Gregorian calendar
DaysInMonth(yr, m) ==
    IF m = 2
    THEN (IF yr % 4 = 0 /\ (yr % 100 # 0 \/ yr % 400 = 0) THEN 29 ELSE 28)
    ELSE IF m \in {4, 6, 9, 11} THEN 30 ELSE 31

\* NaiveDate::parse_from_str(s, "%Y-%m-%d") on strings of the shape
\* dddd-dd-dd; every other string considered here is not a date
parse_from_str(str) ==
    IF /\ Len(str) = 10
       /\ str[5] = Minus
       /\ str[8] = Minus
       /\ \A k \in {1, 2, 3, 4, 6, 7, 9, 10} : IsDigit(str[k])
    THEN LET yr == DigitsValue(SubSeq(str, 1, 4))
             m == DigitsValue(SubSeq(str, 6, 7))
             d == DigitsValue(SubSeq(str, 9, 10))
         IN IF m \in 1..12 /\ d \in 1..DaysInMonth(yr, m)
            THEN Daily(yr, m, d) ELSE InvalidPeriod
    ELSE InvalidPeriod

\* char::to_ascii_uppercase left out
to_ascii_uppercase_skipped(ch) == ch

\* char::to_ascii_uppercase
to_ascii_uppercase(ch) == IF ch \in 97..122 THEN ch - 32 ELSE ch

\* Period::parse once the string is neither a date nor a single integer:
\* year, suffix, indicator and value
ParseIndicator(parts) ==
    LET year == parse_i32(parts[1])
        suffix == parts[2]
    IN IF ~year.ok THEN InvalidPeriod
       ELSE IF Len(suffix) < 2 THEN InvalidPeriod
       \* &suffix[1..] panics when byte 1 is inside the first character
       ELSE IF suffix[1] >= 128 THEN Panicked
       ELSE LET indicator == to_ascii_uppercase(suffix[1])
                value == parse_u32(Tail(suffix))
            IN IF ~value.ok THEN InvalidPeriod
               ELSE IF indicator = 81
                    THEN (IF value.value \in 1..4
                          THEN Quarterly(year.value, value.value) ELSE InvalidPeriod)
               ELSE IF indicator = 77
                    THEN (IF value.value \in 1..12
                          THEN Monthly(year.value, value.value) ELSE InvalidPeriod)
               ELSE IF indicator = 87
                    THEN (IF value.value \in 1..53
                          THEN Weekly(year.value, value.value) ELSE InvalidPeriod)
               ELSE InvalidPeriod

\* Period::parse
parse(str) ==
    LET trimmed == trim(str)
        date == parse_from_str(trimmed)
        parts == split_whitespace(trimmed)
    IN IF date.kind = "Daily" THEN date
       ELSE IF Len(parts) = 1 /\ parse_i32(parts[1]).ok
            THEN Annual(parse_i32(parts[1]).value)
       ELSE IF Len(parts) # 2 THEN InvalidPeriod
       ELSE ParseIndicator(parts)

\* decimal digits of a natural number, as the formatting of integers
RECURSIVE Decimal(_)
Decimal(n) ==
    IF n < 10 THEN <<Zero + n>> ELSE Decimal(n \div 10) \o <<Zero + (n % 10)>>

\* decimal digits zero-padded to width w, as "{:02}" does for w = 2
Padded(n, w) ==
    IF Len(Decimal(n)) >= w THEN Decimal(n)
    ELSE [k \in 1..(w - Len(Decimal(n))) |-> Zero] \o Decimal(n)

\* an integer as "{}" writes it
FormatInt(i) == IF i < 0 THEN <<Minus>> \o Decimal(0 - i) ELSE Decimal(i)

\* the numbers after the indicator run from 0 to MaxNumber
MaxNumber == 54
\* the months of the date strings run from 0 to MaxMonth
MaxMonth == 13

\* the years of the period strings
Years == {-1, 0, 1998, 2024}
\* the four-digit years of the date strings: a common and a leap year
DateYears == {1998, 2024}
\* the days of the date strings
Days == {0, 1, 28, 29, 30, 31, 32}

\* year tokens: integers, an explicitly signed integer, and non-integers
YearTokens == {FormatInt(i) : i \in Years} \cup {<<Plus, 55>>, <<120>>, <<Minus>>}

\* indicators: Q q M m W w, the unknown D, and the two bytes of U+00E9
Indicators == {<<81>>, <<113>>, <<77>>, <<109>>, <<87>>, <<119>>, <<68>>, <<195, 169>>}

\* the numbers after the indicator: plain, zero-padded, signed, absent, not a number
NumberTokens ==
    {Decimal(n) : n \in 0..MaxNumber} \cup {Padded(n, 2) : n \in 0..9}
        \cup {<<Plus, 49>>, <<Minus, 49>>, <<>>, <<120>>}

DateTexts ==
    {Padded(yr, 4) \o <<Minus>> \o Padded(m, 2) \o <<Minus>> \o Padded(d, 2) :
        yr \in DateYears, m \in 0..MaxMonth, d \in Days}

IndicatorTexts ==
    {yt \o <<Blank>> \o ind \o nt : yt \in YearTokens, ind \in Indicators, nt \in NumberTokens}

\* one token, three tokens, and nothing
OtherTexts ==
    YearTokens \cup {<<>>, <<49, 57, 57, 56, Blank, 81, Blank, 49>>,
                     <<49, 57, 57, 56, Blank, Blank, 81, 49>>, <<49, 57, 57, 56, 9, 113, 52>>}

\* whitespace around a period string
Margins == {<<>>, <<Blank>>}

PeriodTexts ==
    {l \o t \o r : l \in Margins, r \in Margins,
                   t \in DateTexts \cup IndicatorTexts \cup OtherTexts}

NoSpec == [hierarchy |-> <<>>, groups |-> <<>>]

InitPeriod ==
    /\ df = NoTable
    /\ spec = NoSpec
    /\ pc = "text"
    /\ text \in PeriodTexts
    /\ Idle

\* Period::parse(text)
Parse ==
    /\ pc = "text"
    /\ period' = parse(text)
    /\ pc' = "parsed"
    /\ UNCHANGED <<df, spec, vres, tree, sm, bvals, y, levels, text, aux>>

\* the year as NaiveDate::format("%Y") writes it: four digits from 0 to
\* 9999, a sign and at least four digits outside
FormatYear(yr) ==
    IF yr < 0 THEN <<Minus>> \o Padded(0 - yr, 4)
    ELSE IF yr > 9999 THEN <<Plus>> \o Decimal(yr)
    ELSE Padded(yr, 4)

\* Display with the blank between the year and the indicator left out
fmt_no_blank(p) ==
    CASE p.kind = "Annual" -> FormatInt(p.a)
      [] p.kind = "Quarterly" -> FormatInt(p.a) \o <<81>> \o Decimal(p.b)
      [] p.kind = "Monthly" -> FormatInt(p.a) \o <<77>> \o Padded(p.b, 2)
      [] p.kind = "Weekly" -> FormatInt(p.a) \o <<87>> \o Padded(p.b, 2)
      [] p.kind = "Daily" ->
            FormatYear(p.a) \o <<Minus>> \o Padded(p.b, 2) \o <<Minus>> \o Padded(p.c, 2)

\* impl Display for Period
fmt(p) ==
    CASE p.kind = "Annual" -> FormatInt(p.a)
      [] p.kind = "Quarterly" -> FormatInt(p.a) \o <<Blank, 81>> \o Decimal(p.b)
      [] p.kind = "Monthly" -> FormatInt(p.a) \o <<Blank, 77>> \o Padded(p.b, 2)
      [] p.kind = "Weekly" -> FormatInt(p.a) \o <<Blank, 87>> \o Padded(p.b, 2)
      [] p.kind = "Daily" ->
            FormatYear(p.a) \o <<Minus>> \o Padded(p.b, 2) \o <<Minus>> \o Padded(p.c, 2)

\* parse has returned Ok(period)
IsPeriod(p) == p.kind \in {"Annual", "Quarterly", "Monthly", "Weekly", "Daily"}

\* period.to_string()
Display ==
    /\ pc = "parsed"
    /\ IsPeriod(period)
    /\ text' = fmt(period)
    /\ pc' = "displayed"
    /\ UNCHANGED <<df, spec, vres, tree, sm, bvals, y, levels, period, aux>>

\* Period::parse of the string just written
Reparse ==
    /\ pc = "displayed"
    /\ again' = parse(text)
    /\ pc' = "reparsed"
    /\ UNCHANGED <<df, spec, vres, tree, sm, bvals, y, levels, text, period,
                   periods, frame, ord, query, found>>

NextPeriod == Parse \/ Display \/ Reparse

SpecPeriod == InitPeriod /\ [][NextPeriod]_vars

(***************************************************************************)
(* Period: the derived order (#[derive(PartialOrd, Ord)]) compares the     *)
(* variants by their position in the enum, then the fields in order.       *)
(***************************************************************************)
\* the position of the variant in the enum
VariantIndex(p) ==
    CASE p.kind = "Annual" -> 0
      [] p.kind = "Quarterly" -> 1
      [] p.kind = "Monthly" -> 2
      [] p.kind = "Weekly" -> 3
      [] p.kind = "Daily" -> 4

\* the day of the year of a date
RECURSIVE Ordinal(_, _, _)
Ordinal(yr, m, d) == IF m = 1 THEN d ELSE DaysInMonth(yr, m - 1) + Ordinal(yr, m - 1, d)

\* the integer a NaiveDate is stored as and compared by: the year above the
\* day of the year (the low bits, the flags of the year, are left at 0)
NaiveDateKey(yr, m, d) == yr * 8192 + Ordinal(yr, m, d) * 16

\* the fields with the sub-period before the year
Fields_reversed(p) ==
    IF p.kind = "Daily" THEN <<NaiveDateKey(p.a, p.b, p.c)>>
    ELSE IF p.kind = "Annual" THEN <<p.a>>
    ELSE <<p.b, p.a>>

\* the fields of a variant in declaration order
Fields(p) ==
    IF p.kind = "Daily" THEN <<NaiveDateKey(p.a, p.b, p.c)>>
    ELSE IF p.kind = "Annual" THEN <<p.a>>
    ELSE <<p.a, p.b>>

\* the comparison of two field lists of one variant
RECURSIVE FieldsCmp(_, _)
FieldsCmp(f, g) ==
    IF f = <<>> THEN "Equal"
    ELSE IF f[1] < g[1] THEN "Less"
    ELSE IF f[1] > g[1] THEN "Greater"
    ELSE FieldsCmp(Tail(f), Tail(g))

\* Ord::cmp for Period
cmp(p, q) ==
    IF VariantIndex(p) < VariantIndex(q) THEN "Less"
    ELSE IF VariantIndex(p) > VariantIndex(q) THEN "Greater"
    ELSE FieldsCmp(Fields(p), Fields(q))

\* the months and days of the compared dates
OrderMonths == {1, 2, 3, 12}
OrderDays == {1, 2, 28, 31}

\* the periods compared
PeriodValues ==
    {Annual(yr) : yr \in Years}
        \cup {Quarterly(yr, q) : yr \in Years, q \in 1..4}
        \cup {Monthly(yr, m) : yr \in Years, m \in 1..12}
        \cup {Weekly(yr, w) : yr \in Years, w \in {1, 2, 52, 53}}
        \cup {Daily(t[1], t[2], t[3]) :
                t \in {u \in Years \X OrderMonths \X OrderDays : u[3] <= DaysInMonth(u[1], u[2])}}

InitOrder ==
    /\ df = NoTable
    /\ spec = NoSpec
    /\ pc = "order"
    /\ text = <<>>
    /\ Idle

\* p.cmp(&q) for two periods
Compare ==
    /\ pc = "order"
    /\ \E p, q \in PeriodValues :
          /\ periods' = <<p, q>>
          /\ ord' = cmp(p, q)
    /\ pc' = "compared"
    /\ UNCHANGED <<df, spec, vres, tree, sm, bvals, y, levels, text, period,
                   frame, query, found, again>>

NextOrder == Compare

SpecOrder == InitOrder /\ [][NextOrder]_vars

(***************************************************************************)
(* HierarchicalTimeSeries: new, parse_periods and aggregate_all, on tables *)
(* with the spec columns S and C, the time column T and the value column   *)
(* V (integer values).                                                     *)
(***************************************************************************)
\* the time column "T" and the value column "V"
ColT == <<84>>
ColV == <<86>>

\* the literal "<aggregated>"
Aggregated == <<60, 97, 103, 103, 114, 101, 103, 97, 116, 101, 100, 62>>

\* largest number of rows of a table of the facade
MaxSeriesRows == 2

\* "1998 Q2", "1998 Q1", "1998 q1" and the invalid "1998 Q5"
SeriesTimes ==
    {<<49, 57, 57, 56, Blank, 81, 50>>, <<49, 57, 57, 56, Blank, 81, 49>>,
     <<49, 57, 57, 56, Blank, 113, 49>>, <<49, 57, 57, 56, Blank, 81, 53>>}

SeriesValues == {1, 2}

SeriesRows ==
    {(ColS :> t[1]) @@ (ColC :> t[2]) @@ (ColT :> t[3]) @@ (ColV :> t[4]) :
        t \in {<<97>>, <<98>>} \X {<<97>>, <<98>>} \X SeriesTimes \X SeriesValues}

SeriesTables ==
    {[cols |-> {ColS, ColC, ColT, ColV}, rows |-> rs] :
        rs \in SeqsUpTo(SeriesRows, MaxSeriesRows)}

\* State over City, and State crossed with the group City
SeriesSpecs ==
    {[hierarchy |-> <<ColS, ColC>>, groups |-> <<>>],
     [hierarchy |-> <<ColS>>, groups |-> <<ColC>>]}

\* the result of parse_periods: the periods, or the error of the first
\* string that does not parse
PeriodsOk(ps) == [kind |-> "Ok", periods |-> ps]
PeriodsErr(k) == [kind |-> k, periods |-> <<>>]

\* the loop of parse_periods over the cells 1..i: the periods pushed so far
\* and the set seen of strings already parsed
RECURSIVE ParsedUpTo(_, _)
ParsedUpTo(cells, i) ==
    IF i = 0 THEN [kind |-> "Ok", periods |-> <<>>, seen |-> {}]
    ELSE LET before == ParsedUpTo(cells, i - 1)
             str == CellLabel(cells[i])
         IN IF before.kind # "Ok" \/ str \in before.seen THEN before
            ELSE LET p == parse(str)
                 IN IF p.kind \in {"InvalidPeriod", "panic"}
                    THEN [kind |-> p.kind, periods |-> <<>>, seen |-> before.seen]
                    ELSE [kind |-> "Ok", periods |-> Append(before.periods, p),
                          seen |-> before.seen \cup {str}]

\* periods.sort(): stable, ascending in the derived order
SortPeriods(ps) ==
    LET n == Len(ps)
        rank(i) == Cardinality({j \in 1..n : \/ cmp(ps[j], ps[i]) = "Less"
                                             \/ (cmp(ps[j], ps[i]) = "Equal" /\ j < i)})
    IN [k \in 1..n |-> ps[CHOOSE i \in 1..n : rank(i) = k - 1]]

\* HierarchicalTimeSeries::parse_periods
parse_periods(cells) ==
    LET r == ParsedUpTo(cells, Len(cells))
    IN IF r.kind = "Ok" THEN PeriodsOk(SortPeriods(r.periods)) ELSE PeriodsErr(r.kind)

\* the column named c of a table, as a sequence of cells
Column(d, c) == [i \in 1..Len(d.rows) |-> d.rows[i][c]]

\* the group keys of .group_by(level columns, time), in order of first
\* occurrence (group_by does not maintain an order)
GroupKeys(rows, group_cols) == Unique(Select(rows, group_cols))

\* the sum of the value column over the rows 1..i that fall in the group key
RECURSIVE GroupSum(_, _, _, _)
GroupSum(rows, group_cols, key, i) ==
    IF i = 0 THEN 0
    ELSE GroupSum(rows, group_cols, key, i - 1)
         + (IF \A c \in Range(group_cols) : rows[i][c] = key[c] THEN rows[i][ColV] ELSE 0)

\* the frame of one level: one row per group, the sum of the values, and
\* "<aggregated>" in the spec columns outside the level
LevelFrame(rows, all_cols, level_cols) ==
    LET group_cols == level_cols \o <<ColT>>
        keys == GroupKeys(rows, group_cols)
    IN [g \in 1..Len(keys) |->
           [c \in Range(all_cols) \cup {ColT, ColV} |->
               IF c = ColV
               THEN GroupSum(rows, group_cols, keys[g], Len(rows))
               ELSE IF c \in Range(group_cols) THEN keys[g][c]
               ELSE Aggregated]]

\* concat of the frames of the first k levels
RECURSIVE FramesUpTo(_, _, _, _)
FramesUpTo(rows, all_cols, all_levels, k) ==
    IF k = 0 THEN <<>>
    ELSE FramesUpTo(rows, all_cols, all_levels, k - 1)
         \o LevelFrame(rows, all_cols, all_levels[k])

\* HierarchicalTimeSeries::aggregate_all
aggregate_all(d, s) ==
    LET all_levels == level_combinations(s)
    IN FramesUpTo(d.rows, all_columns(s), all_levels, Len(all_levels))

InitSeries ==
    /\ df \in SeriesTables
    /\ spec \in SeriesSpecs
    /\ pc = "data"
    /\ text = <<>>
    /\ Idle

\* HierarchicalTimeSeries::new(df, spec, "T", "V")
New ==
    /\ pc = "data"
    /\ IF ColT \notin df.cols
       THEN /\ vres' = ColumnNotFound(ColT)
            /\ pc' = "error"
            /\ UNCHANGED <<periods, tree, sm>>
       ELSE IF ColV \notin df.cols
       THEN /\ vres' = ColumnNotFound(ColV)
            /\ pc' = "error"
            /\ UNCHANGED <<periods, tree, sm>>
       ELSE LET parsed == parse_periods(Column(df, ColT))
                v == validate(spec, df)
            IN IF parsed.kind = "panic"
               THEN /\ pc' = "panic"
                    /\ UNCHANGED <<vres, periods, tree, sm>>
               ELSE IF parsed.kind # "Ok"
               THEN /\ vres' = [kind |-> parsed.kind, col |-> <<>>]
                    /\ pc' = "error"
                    /\ UNCHANGED <<periods, tree, sm>>
               ELSE IF v # Ok
               THEN /\ vres' = v
                    /\ pc' = "error"
                    /\ UNCHANGED <<periods, tree, sm>>
               ELSE /\ vres' = Ok
                    /\ periods' = parsed.periods
                    /\ tree' = BuildTree(df, spec)
                    /\ sm' = from_hierarchy(BuildTree(df, spec))
                    /\ pc' = "series"
    /\ UNCHANGED <<df, spec, bvals, y, levels, text, period, frame, ord, query, found, again>>

\* hts.aggregate_all()
AggregateAll ==
    /\ pc = "series"
    /\ frame' = aggregate_all(df, spec)
    /\ pc' = "flat"
    /\ UNCHANGED <<df, spec, vres, tree, sm, bvals, y, levels, text, period,
                   periods, ord, query, found, again>>

NextSeries == New \/ AggregateAll

SpecSeries == InitSeries /\ [][NextSeries]_vars

(***************************************************************************)
(* Properties.                                                             *)
(***************************************************************************)
Built == pc \in {"tree", "looked", "matrix", "aggregated", "panic"}
HasMatrix == pc \in {"matrix", "aggregated", "panic"}

Members(node) == Range(node.aggregates_from)

\* the sum of b over the first k entries of the index sequence idx
RECURSIVE SumAt(_, _, _)
SumAt(b, idx, k) == IF k = 0 THEN 0 ELSE SumAt(b, idx, k - 1) + b[idx[k] + 1]

RECURSIVE SumAll(_, _)
SumAll(b, k) == IF k = 0 THEN 0 ELSE SumAll(b, k - 1) + b[k]

\* C1: for every node, at row i of the matrix, and every bottom vector b of
\* length m, aggregate(b)[i] is the sum of b[j] over the j of the node's
\* aggregates_from.
C1_AggregateIsMemberSum ==
    pc = "aggregated" =>
        /\ Len(y) = Len(tree.nodes)
        /\ \A i \in 1..Len(tree.nodes) :
              y[i] = SumAt(bvals, tree.nodes[i].aggregates_from,
                           Len(tree.nodes[i].aggregates_from))

\* C1 witness: three bottom rows, a node aggregating exactly two of them, and
\* bottom values that tell the members from the third row
C1_Witness ==
    /\ pc = "aggregated"
    /\ tree.n_bottom = 3
    /\ bvals = <<1, 2, 0>>
    /\ \E i \in 1..Len(tree.nodes) :
          /\ tree.nodes[i].aggregates_from = <<0, 1>>
          /\ y[i] = 3

\* the first row whose label is "Total"
FirstTotalRow ==
    CHOOSE i \in 1..Len(sm.row_labels) :
        /\ sm.row_labels[i] = Total
        /\ \A j \in 1..(i - 1) : sm.row_labels[j] # Total

\* C2: the entry of aggregate(b) at the first row labelled "Total" is the sum
\* of all entries of b.
C2_TotalRowIsSumOfAll ==
    pc = "aggregated" =>
        /\ \E i \in 1..Len(sm.row_labels) : sm.row_labels[i] = Total
        /\ y[FirstTotalRow] = SumAll(bvals, Len(bvals))

\* C2 witness: two rows are labelled "Total" (a column holds the value
\* "Total") and they aggregate to different values
C2_Witness ==
    /\ pc = "aggregated"
    /\ \E i \in 2..Len(sm.row_labels) :
          /\ sm.row_labels[i] = Total
          /\ y[i] # y[FirstTotalRow]
    /\ y[FirstTotalRow] = SumAll(bvals, Len(bvals))
    /\ SumAll(bvals, Len(bvals)) > 0

\* C3: entry (i, j) of the matrix is 1 if bottom index j is in the members of
\* node i and 0 otherwise, for every node i and every j in 0..m-1.
C3_EntriesAreMembership ==
    HasMatrix =>
        /\ Len(sm.matrix) = Len(tree.nodes)
        /\ \A i \in 1..Len(tree.nodes) :
              /\ Len(sm.matrix[i]) = tree.n_bottom
              /\ \A j \in 0..(tree.n_bottom - 1) :
                    sm.matrix[i][j + 1] = IF j \in Members(tree.nodes[i]) THEN 1 ELSE 0

\* C3 witness: a row with a 0, a 1 and a second 1
C3_Witness ==
    /\ pc = "matrix"
    /\ \E i \in 1..Len(sm.matrix) : sm.matrix[i] = <<1, 0, 1>>

\* the distinct value combinations of the spec columns in the input table
ValueCombinations ==
    {[k \in 1..Len(all_columns(spec)) |-> df.rows[r][all_columns(spec)[k]]] :
        r \in 1..Len(df.rows)}

\* C4: the matrix shape is (n, m), n the number of nodes and m the number of
\* distinct value combinations of the spec columns in the table; n_series()
\* and n_bottom() of the time series return the same n and m.
C4_Shape ==
    HasMatrix =>
        /\ shape(sm) = <<Len(tree.nodes), Cardinality(ValueCombinations)>>
        /\ hts_n_series = shape(sm)[1]
        /\ hts_n_bottom = shape(sm)[2]

\* C4 witness: a table of three rows, two of them equal on the spec columns
C4_Witness ==
    /\ pc = "matrix"
    /\ Len(df.rows) = 3
    /\ shape(sm)[2] = 2
    /\ shape(sm)[1] > 3

\* the positions, ascending, of the nodes of the last level of the level list
LastLevelRows == {i \in 1..Len(tree.nodes) : tree.nodes[i].level = tree.n_levels - 1}

\* C5: col_labels() has exactly m entries, col_labels()[j] being the id of
\* the last-level node whose only member is bottom row j; row_labels() has
\* exactly n entries, row_labels()[i] being the id of node i.
C5_Labels ==
    HasMatrix =>
        /\ Len(col_labels(sm)) = sm.ncols
        /\ \A j \in 0..(sm.ncols - 1) :
              \E i \in LastLevelRows :
                  /\ tree.nodes[i].aggregates_from = <<j>>
                  /\ col_labels(sm)[j + 1] = tree.nodes[i].id
        /\ Len(row_labels(sm)) = sm.nrows
        /\ \A i \in 1..sm.nrows : row_labels(sm)[i] = tree.nodes[i].id

\* C6: the rows of the nodes of the last level form the m x m identity: the
\* k-th node of that level has members exactly {k}.
C6_IdentityAtBottom ==
    Built =>
        /\ Cardinality(LastLevelRows) = tree.n_bottom
        /\ \A i \in LastLevelRows :
              LET k == Cardinality({j \in LastLevelRows : j < i})
              IN tree.nodes[i].aggregates_from = <<k>>

\* C7: is_bottom() is true exactly for the nodes of the last level, and
\* bottom_level_nodes() yields exactly those m nodes in tree order.
C7_IsBottomIsLastLevel ==
    Built =>
        /\ \A i \in 1..Len(tree.nodes) : is_bottom(tree.nodes[i]) <=> i \in LastLevelRows
        /\ Len(bottom_level_nodes(tree)) = tree.n_bottom
        /\ \A k \in 1..Len(bottom_level_nodes(tree)) :
              bottom_level_nodes(tree)[k].level = tree.n_levels - 1

IdsDistinct == \A i, j \in 1..Len(tree.nodes) : i # j => tree.nodes[i].id # tree.nodes[j].id

\* C8: from_dataframe never returns a tree in which two nodes share an id or
\* in which a later node has replaced an earlier one in the id lookup.
C8_NoTreeWithSharedId ==
    pc = "tree" =>
        /\ IdsDistinct
        /\ \A i \in 1..Len(tree.nodes) : tree.id_to_index[tree.nodes[i].id] = i - 1

\* no value of a spec column of the table contains the separator
NoSeparatorInLabels ==
    \A r \in 1..Len(df.rows) : \A c \in Range(all_columns(spec)) :
        Slash \notin Range(df.rows[r][c])

\* C9: if no label value of a spec column contains '/', all node ids of the
\* tree are pairwise distinct.
C9_DistinctIdsWithoutSeparator ==
    (pc = "tree" /\ NoSeparatorInLabels) => IdsDistinct

\* the spec columns absent from the table, by position
MissingHierarchy == {i \in 1..Len(spec.hierarchy) : spec.hierarchy[i] \notin df.cols}
MissingGroups == {i \in 1..Len(spec.groups) : spec.groups[i] \notin df.cols}
Least(S) == CHOOSE i \in S : \A j \in S : i <= j
FirstMissing ==
    IF MissingHierarchy # {} THEN spec.hierarchy[Least(MissingHierarchy)]
    ELSE spec.groups[Least(MissingGroups)]

\* C10: validate and from_dataframe return ColumnNotFound naming the first
\* spec column, in hierarchy-then-groups order, absent from the table, before
\* any node is built; when every spec column is present validate returns Ok.
C10_ColumnNotFound ==
    pc # "init" =>
        IF MissingHierarchy = {} /\ MissingGroups = {}
        THEN vres = Ok /\ pc # "error"
        ELSE /\ vres = ColumnNotFound(FirstMissing)
             /\ pc \in {"validated", "error"}
             /\ tree.nodes = <<>>
             /\ tree.id_to_index = EmptyMap

\* C10 witness: from_dataframe has failed on a spec with an absent hierarchy
\* column and an absent group column, naming the hierarchy column
C10_Witness ==
    /\ pc = "error"
    /\ MissingHierarchy # {}
    /\ MissingGroups # {}
    /\ vres.kind = "ColumnNotFound"
    /\ vres.col = spec.hierarchy[Least(MissingHierarchy)]
    /\ Len(spec.hierarchy) = 2

\* C11: in every tree returned by from_dataframe, for every table (an empty
\* one included) and every spec, every node's members set is non-empty.
C11_MembersNonEmpty ==
    Built => \A i \in 1..Len(tree.nodes) : tree.nodes[i].aggregates_from # <<>>

\* the columns of the level of node i
LevelColumns(i) == level_combinations(spec)[tree.nodes[i].level + 1]

\* the positions of the nodes of the level with columns cols
RowsOfLevel(cols) == {i \in 1..Len(tree.nodes) : LevelColumns(i) = cols}

\* C15: for a spec with hierarchy columns only, at every level H[0..h),
\* 1 <= h <= k, the members of the nodes of the level are pairwise disjoint
\* and their union is 0..m-1.
C15_HierarchyLevelsPartition ==
    (Built /\ spec.groups = <<>>) =>
        \A h \in 1..Len(spec.hierarchy) :
            LET rows == RowsOfLevel(SubSeq(spec.hierarchy, 1, h))
            IN /\ \A i, j \in rows :
                     i # j => Members(tree.nodes[i]) \cap Members(tree.nodes[j]) = {}
               /\ UNION {Members(tree.nodes[i]) : i \in rows} = 0..(tree.n_bottom - 1)

\* C18: a node of a non-empty level has as id its label values, in the order
\* of the level's columns, joined with '/', and as label keys exactly the
\* level's columns; the node of the empty level has id "Total", level 0, no
\* labels and members 0..m-1.
C18_IdsAndLabels ==
    Built =>
        \A i \in 1..Len(tree.nodes) :
            LET node == tree.nodes[i]
                cols == LevelColumns(i)
            IN IF cols = <<>>
               THEN /\ node.id = Total
                    /\ node.level = 0
                    /\ DOMAIN node.labels = {}
                    /\ node.aggregates_from = [k \in 1..tree.n_bottom |-> k - 1]
                    /\ RowsOfLevel(<<>>) = {i}
               ELSE /\ DOMAIN node.labels = Range(cols)
                    /\ node.id = join([k \in 1..Len(cols) |-> node.labels[cols[k]]], Slash)

\* C18 witness: a node of a level of two columns whose two labels differ
C18_Witness ==
    /\ pc = "tree"
    /\ \E i \in 1..Len(tree.nodes) :
          /\ Len(LevelColumns(i)) = 2
          /\ tree.nodes[i].labels[LevelColumns(i)[1]] # tree.nodes[i].labels[LevelColumns(i)[2]]
          /\ tree.nodes[i].id = <<97, 47, 84, 111, 116, 97, 108>>

\* C19: aggregate panics if and only if the length of bottom_values differs
\* from m; otherwise it returns n values; it leaves the matrix and its row
\* and column labels unchanged.
C19_AggregatePanicsIffWrongLength ==
    [][(pc = "matrix" /\ pc' # "matrix") =>
          /\ sm' = sm
          /\ pc' \in {"panic", "aggregated"}
          /\ (pc' = "panic") <=> (Len(bvals') # shape(sm)[2])
          /\ (pc' = "aggregated") => (Len(y') = shape(sm)[1])]_vars

\* C19 witness: aggregate has panicked on a vector one entry too long for a
\* matrix of two columns
C19_Witness ==
    /\ pc = "panic"
    /\ sm.ncols = 2
    /\ Len(bvals) = 3

\* level_combinations has returned
Enumerated == pc = "levels"

\* C12: level_combinations returns the empty level first and the hierarchy
\* followed by the groups last, with column counts non-decreasing; levels of
\* equal column count keep their emission order.
C12_LevelOrder ==
    Enumerated =>
        /\ levels # <<>>
        /\ levels[1] = <<>>
        /\ levels[Len(levels)] = spec.hierarchy \o spec.groups
        /\ \A i, j \in 1..Len(levels) : i < j => Len(levels[i]) <= Len(levels[j])
        /\ LET emitted == WithBottom(Emitted(spec, Len(spec.hierarchy)), all_columns(spec))
               first(l) == CHOOSE e \in 1..Len(emitted) :
                               emitted[e] = l /\ \A d \in 1..(e - 1) : emitted[d] # l
           IN \A i, j \in 1..Len(levels) :
                  (i < j /\ Len(levels[i]) = Len(levels[j])) =>
                      first(levels[i]) < first(levels[j])

\* the levels the enumerator is to return for hierarchy H and groups G
ExpectedLevels(H, G) ==
    {<<>>} \cup {SubSeq(H, 1, h) : h \in 1..Len(H)}
           \cup (IF G = <<>> THEN {}
                 ELSE {G} \cup {SubSeq(H, 1, h) \o G : h \in 1..Len(H)})

\* C13: for pairwise distinct column names without '/', level_combinations
\* returns exactly the empty level, every hierarchy prefix and, with groups,
\* the groups alone and every hierarchy prefix followed by the groups.
C13_ExactLevels ==
    (/\ Enumerated
     /\ NoDuplicates(all_columns(spec))
     /\ \A c \in Range(all_columns(spec)) : \A k \in 1..Len(c) : c[k] # Slash) =>
        /\ Range(levels) = ExpectedLevels(spec.hierarchy, spec.groups)
        /\ NoDuplicates(levels)

\* C14: emitted levels are the same level only when their column sequences
\* are equal element by element, so every emitted column sequence is present
\* in the result.
C14_DistinctSequencesKept ==
    Enumerated =>
        Range(WithBottom(Emitted(spec, Len(spec.hierarchy)), all_columns(spec)))
            \subseteq Range(levels)

\* C16: building the tree and the matrix twice from the same table and spec
\* gives the same tree and matrix: in whatever order unique() returns the
\* distinct rows in a build, the sorted bottom frame and the sorted frame of
\* every level are the frames of every other build, and the tree and the
\* matrix are computed from these frames and the spec alone.
C16_SameFramesOnEveryBuild ==
    (pc = "matrix") =>
        /\ \A u \in UniqueOrders(Select(df.rows, all_columns(spec))) :
              Sort(u, all_columns(spec)) = BottomDf(df, spec)
        /\ \A k \in 1..tree.n_levels :
              LET level_cols == level_combinations(spec)[k]
                  projected == Select(BottomDf(df, spec), level_cols)
              IN \A u \in UniqueOrders(projected) :
                     Sort(u, level_cols) = Sort(Unique(projected), level_cols)

\* C16 witness: a matrix built from a two-column table with three distinct
\* rows, so that unique() has six orders to return them in
C16_Witness ==
    /\ pc = "matrix"
    /\ Len(spec.hierarchy) = 2
    /\ Cardinality(UniqueOrders(Select(df.rows, all_columns(spec)))) = 6

\* the positions of the nodes of level l whose label keys are cols
NodesAt(l, cols) ==
    {i \in 1..Len(tree.nodes) :
        tree.nodes[i].level = l /\ DOMAIN tree.nodes[i].labels = cols}

\* C17: for hierarchy State, City and groups Sector over 2 states, 2 cities
\* per state and 2 sectors, the tree has 21 nodes over 6 levels: 1 total,
\* 2 sectors, 2 states, 4 state/sector, 4 state/city and 8 bottom nodes, in
\* that row order; the matrix has shape (21, 8) and the Total row of
\* aggregate on the all-ones vector is 8.
C17_Scenario ==
    /\ Built =>
          /\ n_series(tree) = 21
          /\ tree.n_levels = 6
          /\ NodesAt(0, {}) = {1}
          /\ NodesAt(1, {ColG}) = 2..3
          /\ NodesAt(2, {ColS}) = 4..5
          /\ NodesAt(3, {ColS, ColG}) = 6..9
          /\ NodesAt(4, {ColS, ColC}) = 10..13
          /\ NodesAt(5, {ColS, ColC, ColG}) = 14..21
    /\ HasMatrix =>
          /\ shape(sm) = <<21, 8>>
          /\ row_labels(sm)[1] = Total
    /\ (pc = "aggregated" /\ bvals = [i \in 1..8 |-> 1]) => y[1] = 8

\* C17 witness: aggregate has been applied to the all-ones vector of the
\* scenario and the Total row is 8
C17_Witness ==
    /\ pc = "aggregated"
    /\ spec = ScenarioSpec
    /\ bvals = [i \in 1..8 |-> 1]
    /\ y[1] = 8

\* the documented spellings with the period each denotes: dates of the
\* calendar, integers, and year, indicator in either case and number in range,
\* the number plain or zero-padded to two digits
DailyFormats ==
    {<<Padded(t[1], 4) \o <<Minus>> \o Padded(t[2], 2) \o <<Minus>> \o Padded(t[3], 2),
       Daily(t[1], t[2], t[3])>> :
        t \in {u \in DateYears \X (1..12) \X (1..31) : u[3] <= DaysInMonth(u[1], u[2])}}

AnnualFormats == {<<FormatInt(yr), Annual(yr)>> : yr \in Years}

QuarterlyFormats ==
    {<<FormatInt(t[1]) \o <<Blank, t[2]>> \o Padded(t[3], t[4]), Quarterly(t[1], t[3])>> :
        t \in Years \X {81, 113} \X (1..4) \X (1..2)}

MonthlyFormats ==
    {<<FormatInt(t[1]) \o <<Blank, t[2]>> \o Padded(t[3], t[4]), Monthly(t[1], t[3])>> :
        t \in Years \X {77, 109} \X (1..12) \X (1..2)}

WeeklyFormats ==
    {<<FormatInt(t[1]) \o <<Blank, t[2]>> \o Padded(t[3], t[4]), Weekly(t[1], t[3])>> :
        t \in Years \X {87, 119} \X (1..53) \X (1..2)}

\* the spellings with whitespace around them
Formats ==
    {<<l \o f[1] \o r, f[2]>> :
        l \in Margins, r \in Margins,
        f \in DailyFormats \cup AnnualFormats \cup QuarterlyFormats
                \cup MonthlyFormats \cup WeeklyFormats}

FormatTexts == {f[1] : f \in Formats}

\* C20: after trimming, Period::parse maps "YYYY-MM-DD" to Daily, a single
\* integer token to Annual, and "YYYY Xn" to Quarterly, Monthly or Weekly
\* when X is Q, M or W in either case and n is in 1..4, 1..12 or 1..53.
C20_ParseFormats ==
    (pc = "parsed" /\ text \in FormatTexts) => <<text, period>> \in Formats

\* C20 witness: " 2024 m12 " has been parsed to Monthly(2024, 12)
C20_Witness ==
    /\ pc = "parsed"
    /\ text = <<Blank, 50, 48, 50, 52, Blank, 109, 49, 50, Blank>>
    /\ period = Monthly(2024, 12)

\* the texts whose number after Q, M or W (either case) is out of range
OutOfRangeTexts ==
    {l \o FormatInt(t[1]) \o <<Blank, t[2]>> \o Decimal(t[3]) \o r :
        l \in Margins, r \in Margins,
        t \in {u \in Years \X {81, 113, 77, 109, 87, 119} \X (0..MaxNumber) :
                  \/ u[3] = 0
                  \/ (u[2] \in {81, 113} /\ u[3] > 4)
                  \/ (u[2] \in {77, 109} /\ u[3] > 12)
                  \/ (u[2] \in {87, 119} /\ u[3] > 53)}}

\* texts of none of the five shapes: nothing, three tokens, a year that is
\* no integer, the indicator D, and a number that is absent, no number or
\* negative (ASCII indicators only)
ShapelessTexts ==
    {l \o t \o r :
        l \in Margins, r \in Margins,
        t \in {<<>>, <<120>>, <<Minus>>, <<49, 57, 57, 56, Blank, 81, Blank, 49>>}
              \cup {yt \o <<Blank>> \o ind \o nt :
                      yt \in {<<120>>, <<Minus>>},
                      ind \in Indicators \ {<<195, 169>>}, nt \in NumberTokens}
              \cup {yt \o <<Blank>> \o ind \o nt :
                      yt \in YearTokens, ind \in {<<68>>}, nt \in NumberTokens}
              \cup {yt \o <<Blank>> \o ind \o nt :
                      yt \in YearTokens, ind \in Indicators \ {<<195, 169>>},
                      nt \in {<<>>, <<120>>, <<Minus, 49>>}}}

\* C21: Period::parse returns an InvalidPeriod error for a string of none of
\* the five shapes or with a quarter, month or week number out of range, and
\* never panics, a suffix beginning with a non-ASCII character included.
C21_ErrorNeverPanic ==
    (pc = "parsed") =>
        /\ period.kind # "panic"
        /\ text \in OutOfRangeTexts => period = InvalidPeriod
        /\ text \in ShapelessTexts => period = InvalidPeriod

\* (a1, b1, c1) is lexicographically before (a2, b2, c2)
LexBefore(p, q) ==
    \/ p.a < q.a
    \/ (p.a = q.a /\ p.b < q.b)
    \/ (p.a = q.a /\ p.b = q.b /\ p.c < q.c)

\* C22: for two Periods of one frequency the derived order is the
\* chronological one: p < q iff the year and sub-period (for Daily: year,
\* month, day) of p are lexicographically before those of q.
C22_OrderIsChronological ==
    (pc = "compared" /\ periods[1].kind = periods[2].kind) =>
        /\ (ord = "Less") <=> LexBefore(periods[1], periods[2])
        /\ (ord = "Equal") <=> (periods[1] = periods[2])

\* C22 witness: the last day of February of a leap year has been compared
\* with the first of March and found earlier
C22_Witness ==
    /\ pc = "compared"
    /\ periods = <<Daily(2024, 2, 28), Daily(2024, 3, 1)>>
    /\ ord = "Less"

\* HierarchicalTimeSeries::new has succeeded
IsSeries == pc \in {"series", "flat"}

\* the period a documented spelling denotes
Denoted(str) == CHOOSE p \in PeriodValues : <<str, p>> \in Formats

\* C23: after new succeeds, periods() is strictly ascending and n_periods()
\* is the number of distinct periods the time column denotes, whatever the
\* spelling of the time strings.
C23_PeriodsStrictlyAscending ==
    IsSeries =>
        /\ \A i \in 1..(Len(periods) - 1) : cmp(periods[i], periods[i + 1]) = "Less"
        /\ Len(periods) = Cardinality({Denoted(df.rows[i][ColT]) : i \in 1..Len(df.rows)})

\* the rows of the returned frame that belong to level_cols, hold the values
\* of bottom row i on the level's columns, and whose time is the period of
\* bottom row i
FrameRowsOf(level_cols, i) ==
    {g \in 1..Len(frame) :
        /\ \A c \in Range(all_columns(spec)) :
              frame[g][c] = (IF c \in Range(level_cols) THEN df.rows[i][c] ELSE Aggregated)
        /\ Denoted(frame[g][ColT]) = Denoted(df.rows[i][ColT])}

\* the sum of the value column over the bottom rows 1..k that agree with
\* bottom row i on the level's columns and on the period
RECURSIVE BottomSum(_, _, _)
BottomSum(level_cols, i, k) ==
    IF k = 0 THEN 0
    ELSE BottomSum(level_cols, i, k - 1)
         + (IF /\ \A c \in Range(level_cols) : df.rows[k][c] = df.rows[i][c]
               /\ Denoted(df.rows[k][ColT]) = Denoted(df.rows[i][ColT])
            THEN df.rows[k][ColV] ELSE 0)

\* C24: aggregate_all returns, for every level and every (value combination
\* of the level's columns, time period) occurring in the bottom data, exactly
\* one row; its value is the sum of the value column over the matching bottom
\* rows and its spec columns outside the level hold "<aggregated>".
C24_AggregateAllRows ==
    (pc = "flat") =>
        \A k \in 1..Len(level_combinations(spec)) :
            \A i \in 1..Len(df.rows) :
                LET level_cols == level_combinations(spec)[k]
                    found_rows == FrameRowsOf(level_cols, i)
                IN /\ Cardinality(found_rows) = 1
                   /\ \A g \in found_rows :
                         frame[g][ColV] = BottomSum(level_cols, i, Len(df.rows))

\* a is at most b in the byte-wise order of strings
StrLeq(a, b) == a = b \/ StrLess(a, b)

\* C25: the nodes are ordered by level ascending (node.level never decreases
\* along nodes() and is the position of the node's level in the level list)
\* and, within one level, by ascending id string.
C25_NodesOrderedByLevelThenId ==
    Built =>
        /\ \A i \in 1..Len(tree.nodes) :
              /\ tree.nodes[i].level \in 0..(tree.n_levels - 1)
              /\ DOMAIN tree.nodes[i].labels = Range(LevelColumns(i))
        /\ \A i \in 1..(Len(tree.nodes) - 1) :
              /\ tree.nodes[i].level <= tree.nodes[i + 1].level
              /\ tree.nodes[i].level = tree.nodes[i + 1].level =>
                    StrLeq(tree.nodes[i].id, tree.nodes[i + 1].id)

\* the number of ones in column j of the rows 1..i of the matrix
RECURSIVE OnesInColumn(_, _)
OnesInColumn(j, i) ==
    IF i = 0 THEN 0 ELSE OnesInColumn(j, i - 1) + sm.matrix[i][j]

\* C26: at every level of the level list, groups-only and crossed levels
\* included, each bottom-row index is a member of exactly one node of the
\* level; hence every column of S holds exactly n_levels ones.
C26_OneNodePerLevelAndBottomRow ==
    /\ Built =>
          \A l \in 0..(tree.n_levels - 1) :
              \A b \in 0..(tree.n_bottom - 1) :
                  Cardinality({i \in 1..Len(tree.nodes) :
                                  /\ tree.nodes[i].level = l
                                  /\ b \in Members(tree.nodes[i])}) = 1
    /\ HasMatrix =>
          \A j \in 1..sm.ncols : OnesInColumn(j, sm.nrows) = tree.n_levels

\* C27: get_node(N.id) returns N itself for every node N of the tree, and
\* get_node(s) returns None for every string s that is the id of no node.
C27_GetNodeReturnsTheNode ==
    (pc = "looked") =>
        /\ \A i \in 1..Len(tree.nodes) :
              tree.nodes[i].id = query => found = <<tree.nodes[i]>>
        /\ (\A i \in 1..Len(tree.nodes) : tree.nodes[i].id # query) => found = <<>>

\* the rows with the first two exchanged, and with the first moved to the
\* end: every order of the rows is reached by repeating these two steps
Swapped(rows) ==
    IF Len(rows) < 2 THEN rows ELSE <<rows[2], rows[1]>> \o SubSeq(rows, 3, Len(rows))

Rotated(rows) == IF rows = <<>> THEN rows ELSE Append(Tail(rows), rows[1])

\* tables with the same distinct rows on the spec columns as d: the rows in
\* another order, every row twice, and the columns outside the spec dropped
SameProjection(d, s) ==
    {[cols |-> d.cols, rows |-> Swapped(d.rows)],
     [cols |-> d.cols, rows |-> Rotated(d.rows)],
     [cols |-> d.cols, rows |-> d.rows \o d.rows],
     [cols |-> Range(all_columns(s)), rows |-> Select(d.rows, all_columns(s))]}

\* C28: tree and matrix depend only on the set of distinct rows of the table
\* projected on the spec columns: tables that differ in row order, repeated
\* rows or columns outside the spec give the same nodes and the same matrix.
C28_DependsOnDistinctRowsOnly ==
    (pc = "matrix") =>
        \A d \in SameProjection(df, spec) :
            LET other == BuildTree(d, spec)
            IN /\ validate(spec, d) = Ok
               /\ other = tree
               /\ from_hierarchy(other) = sm

\* C28 witness: a matrix built from three rows, two of them equal on the one
\* spec column, of a table with a second column outside the spec
C28_Witness ==
    /\ pc = "matrix"
    /\ Len(df.rows) = 3
    /\ df.cols # Range(all_columns(spec))
    /\ Cardinality(Range(Select(df.rows, all_columns(spec)))) = 2
    /\ df.rows[1] # df.rows[2]
    /\ tree.n_bottom = 2

\* every level is a hierarchy prefix followed by nothing or by all groups
LevelsArePrefixes ==
    \A k \in 1..Len(levels) :
        \E h \in 0..Len(spec.hierarchy) :
            \/ levels[k] = SubSeq(spec.hierarchy, 1, h)
            \/ levels[k] = SubSeq(spec.hierarchy, 1, h) \o spec.groups

\* with two or more group columns (none of them a hierarchy column), a level
\* holds none of the group columns or all of them
GroupsWholeOrAbsent ==
    (Len(spec.groups) >= 2 /\ Range(spec.groups) \cap Range(spec.hierarchy) = {}) =>
        \A k \in 1..Len(levels) :
            Range(levels[k]) \cap Range(spec.groups) \in {{}, Range(spec.groups)}

\* with an empty hierarchy the result is the empty level, then the groups
GroupsOnlyLevels ==
    (spec.hierarchy = <<>> /\ spec.groups # <<>>) => levels = <<<<>>, spec.groups>>

\* C29: every level returned by level_combinations is a prefix of the
\* hierarchy columns followed by nothing or by the entire groups sequence; no
\* level holds a non-empty proper subset of two or more group columns; with
\* an empty hierarchy the result is the empty level followed by the groups.
C29_PrefixThenAllGroups ==
    Enumerated => (LevelsArePrefixes /\ GroupsWholeOrAbsent /\ GroupsOnlyLevels)

\* C30: for every Period p that Period::parse returns, parsing p.to_string()
\* returns Ok(p).
C30_DisplayThenParseIsIdentity ==
    (pc = "reparsed") => (again = period /\ IsPeriod(period))

\* C30 witness: Monthly(2024, 1), parsed from "2024 m1", has been written as
\* "2024 M01" and parsed again
C30_Witness ==
    /\ pc = "reparsed"
    /\ period = Monthly(2024, 1)
    /\ text = <<50, 48, 50, 52, Blank, 77, Zero, 49>>
    /\ again = Monthly(2024, 1)

====
